---- MODULE Spec2Model ----
(***************************************************************************)
(* Model of the compare page of ArtWeave (frontend/app/compare/            *)
(* summary-client.tsx): the CompareClient component with its runCompare    *)
(* callback (start request, polling loop, 25 s abort timer) and the pure   *)
(* helpers it calls; the Results poller of the legacy frontend             *)
(* (frontend/src/pages) and the two selection pages.                       *)
(*                                                                         *)
(* JavaScript values are tagged records; a JavaScript string is a sequence *)
(* of text chunks (a chunk is a run of characters written as one TLA+      *)
(* string, single characters where the code looks at characters).          *)
(***************************************************************************)
EXTENDS Integers, Sequences, FiniteSets, TLC

VARIABLES
    summaryText,    \* useState<string | null>(null)
    diagram,        \* useState<DiagramPayload | null>(null)
    error,          \* useState<string | null>(null)
    loading,        \* useState(true)
    setId, leftId, rightId,   \* props of CompareClient
    mounted,        \* the mount effect has run
    pc,             \* per run: where the async runCompare call is suspended
    attempts,       \* per run: let attempts
    summaryFound,   \* per run: let summaryFound
    aborted,        \* per run: controller.signal.aborted
    startRequests,  \* per run: start requests issued (fetch calls made)
    statusRequests, \* per run: status requests issued (fetch calls made)
    gotDiagram,     \* per run: some response so far carried a diagram
    gotSummary,     \* per run: some response so far carried a summary
    gotError,       \* per run: some response so far had status "error"
    latest,         \* the run started by the most recent call of runCompare
    last,           \* the step taken last: [ev, run]
    call,           \* a call of a pure helper on its own: [fn, arg, done, result]
    results,        \* the Results page of the legacy frontend (pages/Results.jsx)
    selection       \* a selection page: SetSelectionClient or ChoosePaintings

vars == <<summaryText, diagram, error, loading, setId, leftId, rightId, mounted,
          pc, attempts, summaryFound, aborted, startRequests, statusRequests,
          gotDiagram, gotSummary, gotError, latest, last, call, results, selection>>

reactState == <<summaryText, diagram, error, loading>>
props == <<setId, leftId, rightId>>
pages == <<results, selection>>
locals == <<pc, attempts, summaryFound, aborted, startRequests, statusRequests,
            gotDiagram, gotSummary, gotError>>

-----------------------------------------------------------------------------
(* Bounds and program constants *)

\* runCompare calls that may be in flight at the same time
MaxRuns == 2

\* while (attempts < 20)
MaxAttempts == 20

Runs == 1..MaxRuns

-----------------------------------------------------------------------------
(* JavaScript values *)

Undef == [t |-> "undefined"]
JNull == [t |-> "null"]
Str(chunks) == [t |-> "string", s |-> chunks]
Arr(items) == [t |-> "array", items |-> items]
Obj(fields) == [t |-> "object", f |-> fields]
Num(n) == [t |-> "number", n |-> n]

\* the TypeError a step throws (a property read of null or undefined)
TypeError == [t |-> "throw", name |-> "TypeError"]
Threw(v) == v.t = "throw"

IsNullish(v) == v.t \in {"undefined", "null"}

\* JavaScript truthiness: undefined, null, "" and 0 are falsy
Truthy(v) ==
    CASE v.t \in {"undefined", "null"} -> FALSE
      [] v.t = "string" -> v.s # <<>>
      [] v.t = "number" -> v.n # 0
      [] OTHER -> TRUE

\* String(v)
ToStr(v) ==
    CASE v.t = "string" -> v
      [] v.t = "number" -> Str(<<ToString(v.n)>>)
      [] v.t = "null" -> Str(<<"null">>)
      [] v.t = "undefined" -> Str(<<"undefined">>)
      [] v.t = "object" -> Str(<<"[object Object]">>)

IsArray(v) == v.t = "array"

Range(seq) == {seq[i] : i \in DOMAIN seq}

\* property read o.k of an object (undefined when the property is missing)
Get(o, k) == IF o.t = "object" /\ k \in DOMAIN o.f THEN o.f[k] ELSE Undef

\* a ?? b
Coalesce(a, b) == IF IsNullish(a) THEN b ELSE a

-----------------------------------------------------------------------------
(* Summary Text Processor *)

Marker == "**Comparison Summary**"

IsSpace(c) == c \in {" ", "\n", "\t"}

RECURSIVE TrimStart(_)
TrimStart(s) ==
    IF s # <<>> /\ IsSpace(Head(s)) THEN TrimStart(Tail(s)) ELSE s

RECURSIVE TrimEnd(_)
TrimEnd(s) ==
    IF s # <<>> /\ IsSpace(s[Len(s)]) THEN TrimEnd(SubSeq(s, 1, Len(s) - 1)) ELSE s

\* String.prototype.trim
Trim(s) == TrimEnd(TrimStart(s))

\* text.indexOf(marker), 1-based over chunks, 0 when absent
IndexOfMarker(s) ==
    IF \E i \in 1..Len(s) : s[i] = Marker
    THEN CHOOSE i \in 1..Len(s) : s[i] = Marker /\ \A j \in 1..(i - 1) : s[j] # Marker
    ELSE 0

\* after.replace(/^\s*[:\-]\s*/, "")
StripSeparator(s) ==
    LET t == TrimStart(s)
    IN  IF t # <<>> /\ Head(t) \in {":", "-"} THEN TrimStart(Tail(t)) ELSE s

\* every leading colon and dash stripped, not one
extractComparisonSummary_StripsAll(text) ==
    LET idx == IndexOfMarker(text)
    IN  IF idx = 0
        THEN Trim(text)
        ELSE Trim(StripSeparator(StripSeparator(Trim(SubSeq(text, idx + 1, Len(text))))))

extractComparisonSummary(text) ==
    LET idx == IndexOfMarker(text)
    IN  IF idx = 0
        THEN Trim(text)
        ELSE Trim(StripSeparator(Trim(SubSeq(text, idx + 1, Len(text)))))

\* chunks that are no word characters (\W): white space and punctuation;
\* every other chunk is a run of word characters, and two such chunks side
\* by side are one word
NonWordChunks == {" ", "\n", "\t", ".", ",", ":", "-"}

\* /artwork/i on a chunk
IsArtworkWord(c) == c \in {"Artwork", "artwork", "ARTWORK"}

\* /A/i or /B/i on a chunk: letter is "A" or "B"
IsLetter(c, letter) ==
    IF letter = "A" THEN c \in {"A", "a"} ELSE c \in {"B", "b"}

\* \b between position i - 1 and position i of s, where s[i] is a word chunk
BoundaryBefore(s, i) == i = 1 \/ s[i - 1] \in NonWordChunks
\* \b between position j and position j + 1 of s, where s[j] is a word chunk
BoundaryAfter(s, j) == j = Len(s) \/ s[j + 1] \in NonWordChunks

\* the position after the white space that follows position i
RECURSIVE SkipSpace(_, _)
SkipSpace(s, i) ==
    IF i + 1 <= Len(s) /\ IsSpace(s[i + 1]) THEN SkipSpace(s, i + 1) ELSE i + 1

\* /\bArtwork\s*A\b/gi tried at position i: the position of the last chunk
\* of the match, 0 when there is no match at i
MatchEnd(s, i, letter) ==
    LET j == SkipSpace(s, i)
    IN  IF /\ IsArtworkWord(s[i]) /\ BoundaryBefore(s, i)
           /\ j <= Len(s) /\ IsLetter(s[j], letter) /\ BoundaryAfter(s, j)
        THEN j ELSE 0

\* s.replace(/\bArtwork\s*A\b/gi, title) from position i on (the title has
\* no $ pattern)
RECURSIVE ReplaceFrom(_, _, _, _)
ReplaceFrom(s, i, letter, title) ==
    IF i > Len(s) THEN <<>>
    ELSE LET j == MatchEnd(s, i, letter)
         IN  IF j > 0 THEN title \o ReplaceFrom(s, j + 1, letter, title)
             ELSE <<s[i]>> \o ReplaceFrom(s, i + 1, letter, title)

replaceArtworkLabels(summary, artworkA, artworkB) ==
    ReplaceFrom(ReplaceFrom(summary, 1, "A", Get(artworkA, "title").s),
                1, "B", Get(artworkB, "title").s)

-----------------------------------------------------------------------------
(* Diagram Normalizer *)

\* the label taken from data.name before data.label
LegacyNode_NameFirst(node, index) ==
    IF IsNullish(node) THEN TypeError
    ELSE
    LET data == Coalesce(Get(node, "data"), Obj(<<>>))
        id == Coalesce(Get(data, "id"), Str(<<"node-", ToString(index)>>))
        label == Coalesce(Get(data, "name"), Coalesce(Get(data, "label"), id))
    IN  Obj([id |-> id, type |-> Str(<<"niche_connection">>),
             label |-> ToStr(label), level |-> Num(1)])

\* elements.nodes.map((node, index) => ...); index is 0-based
\* (node.data throws when node is null or undefined)
LegacyNode(node, index) ==
    IF IsNullish(node) THEN TypeError
    ELSE
    LET data == Coalesce(Get(node, "data"), Obj(<<>>))
        id == Coalesce(Get(data, "id"), Str(<<"node-", ToString(index)>>))
        label == Coalesce(Get(data, "label"), Coalesce(Get(data, "name"), id))
    IN  Obj([id |-> id, type |-> Str(<<"niche_connection">>),
             label |-> ToStr(label), level |-> Num(1)])

\* elements.edges.map((edge, index) => ...)
LegacyEdge(edge, index) ==
    IF IsNullish(edge) THEN TypeError
    ELSE
    LET data == Coalesce(Get(edge, "data"), Obj(<<>>))
        id == Coalesce(Get(data, "id"), Str(<<"edge-", ToString(index)>>))
    IN  Obj([id |-> id,
             source |-> ToStr(Coalesce(Get(data, "source"), Str(<<>>))),
             target |-> ToStr(Coalesce(Get(data, "target"), Str(<<>>))),
             kind |-> Str(<<"contextual">>),
             label |-> IF Truthy(Get(data, "label")) THEN ToStr(Get(data, "label"))
                       ELSE JNull])

\* the legacy conversion of elements.nodes and elements.edges
LegacyPayload(elements) ==
    LET nodes == [i \in 1..Len(Get(elements, "nodes").items) |->
                   LegacyNode(Get(elements, "nodes").items[i], i - 1)]
        edges == [i \in 1..Len(Get(elements, "edges").items) |->
                   LegacyEdge(Get(elements, "edges").items[i], i - 1)]
    IN  IF \/ \E i \in DOMAIN nodes : Threw(nodes[i])
           \/ \E i \in DOMAIN edges : Threw(edges[i])
        THEN TypeError
        ELSE Obj([nodes |-> Arr(nodes), edges |-> Arr(edges),
                  layout |-> Obj([direction |-> Str(<<"TB">>)])])

\* the elements shape tested before the canonical shape
normalizeDiagramPayload_LegacyFirst(payload) ==
    IF ~Truthy(payload) THEN JNull
    ELSE LET elements == Get(payload, "elements")
         IN  IF Truthy(elements) /\ IsArray(Get(elements, "nodes"))
                /\ IsArray(Get(elements, "edges"))
             THEN LegacyPayload(elements)
             ELSE IF IsArray(Get(payload, "nodes")) /\ IsArray(Get(payload, "edges"))
             THEN payload
             ELSE JNull

\* the canonical shape accepted with one of its two arrays
normalizeDiagramPayload_EitherArray(payload) ==
    IF ~Truthy(payload) THEN JNull
    ELSE IF IsArray(Get(payload, "nodes")) \/ IsArray(Get(payload, "edges"))
    THEN payload
    ELSE LET elements == Get(payload, "elements")
         IN  IF ~Truthy(elements) \/ ~IsArray(Get(elements, "nodes"))
                \/ ~IsArray(Get(elements, "edges"))
             THEN JNull
             ELSE LegacyPayload(elements)

normalizeDiagramPayload(payload) ==
    IF ~Truthy(payload) THEN JNull
    ELSE IF IsArray(Get(payload, "nodes")) /\ IsArray(Get(payload, "edges"))
    THEN payload
    ELSE LET elements == Get(payload, "elements")
         IN  IF ~Truthy(elements) \/ ~IsArray(Get(elements, "nodes"))
                \/ ~IsArray(Get(elements, "edges"))
             THEN JNull
             ELSE LegacyPayload(elements)

-----------------------------------------------------------------------------
(* Category Classifier: a type is a string of one chunk *)

\* the keys of categoryPalette
Categories ==
    {"niche_connection", "artist", "teacher", "movement", "theme", "context", "other"}

\* String.prototype.toLowerCase on the chunks used as node types
LowerChunk(c) ==
    CASE c = "Artist" -> "artist"
      [] c = "THEME" -> "theme"
      [] c = "Niche_Connection" -> "niche_connection"
      [] OTHER -> c

\* node.type?.toLowerCase()
LowerType(node) ==
    LET type == Get(node, "type")
    IN  IF IsNullish(type) THEN Undef
        ELSE Str([i \in DOMAIN type.s |-> LowerChunk(type.s[i])])

inferCategory(node) ==
    LET type == LowerType(node)
    IN  IF type = Str(<<"niche_connection">>) \/ Get(node, "level") = Num(1)
        THEN "niche_connection"
        ELSE IF type = Str(<<"artist">>) THEN "artist"
        ELSE IF type = Str(<<"teacher">>) THEN "teacher"
        ELSE IF type = Str(<<"movement">>) THEN "movement"
        ELSE IF type = Str(<<"theme">>) THEN "theme"
        ELSE IF type = Str(<<"context">>) THEN "context"
        ELSE "other"

-----------------------------------------------------------------------------
(* Label Formatter: a label is a sequence of single characters *)

Min(a, b) == IF a <= b THEN a ELSE b

\* label.lastIndexOf(" ", mid): 0-based, -1 when there is none
LastIndexOfSpace(label, mid) ==
    LET hits == {j \in 0..Min(mid, Len(label) - 1) : label[j + 1] = " "}
    IN  IF hits = {} THEN -1 ELSE CHOOSE j \in hits : \A k \in hits : k <= j

insertLineBreak(label) ==
    IF Len(label) <= 24 THEN label
    ELSE LET mid == Min(24, Len(label) - 1)
             splitAt == LastIndexOfSpace(label, mid)
         IN  IF splitAt <= 0 THEN label
             ELSE SubSeq(label, 1, splitAt) \o <<"\n">>
                  \o SubSeq(label, splitAt + 2, Len(label))

\* the cut made after 42 characters: trimmed.slice(0, 42) + "..."
truncateLabel_CutAfter42(label) ==
    LET trimmed == Trim(label)
    IN  IF Len(trimmed) <= 42 THEN insertLineBreak(trimmed)
        ELSE insertLineBreak(SubSeq(trimmed, 1, 42) \o <<".", ".", ".">>)

truncateLabel(label) ==
    LET trimmed == Trim(label)
    IN  IF Len(trimmed) <= 42 THEN insertLineBreak(trimmed)
        ELSE insertLineBreak(SubSeq(trimmed, 1, 39) \o <<".", ".", ".">>)

-----------------------------------------------------------------------------
(* Layout Engine *)

ARTWORK_NODE_WIDTH == 220
ARTWORK_NODE_HEIGHT == 230
CATEGORY_NODE_WIDTH == 200
CATEGORY_NODE_HEIGHT == 70
TOP_ROW_Y == 20
ROW_SPACING == 260

canvasWidth == 920
padding == 80
leftX == padding
rightX == canvasWidth - ARTWORK_NODE_WIDTH - padding
centerX == (leftX + ARTWORK_NODE_WIDTH + rightX) \div 2 - CATEGORY_NODE_WIDTH \div 2

ArtworkAId == Str(<<"artworkA">>)
ArtworkBId == Str(<<"artworkB">>)
NicheConnection == Str(<<"niche_connection">>)

Max(a, b) == IF a >= b THEN a ELSE b

\* { ...node, x, y }
WithXY(node, x, y) ==
    Obj([k \in DOMAIN node.f \cup {"x", "y"} |->
            IF k = "x" THEN x ELSE IF k = "y" THEN y ELSE node.f[k]])

\* mapped.find(pred), given the indices of the nodes satisfying pred: the
\* index of the first of them, 0 if there is none
FirstIndex(hits) ==
    IF hits = {} THEN 0 ELSE CHOOSE i \in hits : \A j \in hits : i <= j

IsArtworkId(id) == id = ArtworkAId \/ id = ArtworkBId

\* node.type === "niche_connection" || node.level === 1
IsL1(node) == Get(node, "type") = NicheConnection \/ Get(node, "level") = Num(1)

\* one entry of nodes.map(...): point is graph.node(node.id) after dagre.layout
MappedNode(node, point) ==
    LET isArtwork == IsArtworkId(Get(node, "id"))
        width == IF isArtwork THEN ARTWORK_NODE_WIDTH ELSE CATEGORY_NODE_WIDTH
        rowIndex == IF isArtwork \/ IsL1(node) THEN 0
                    ELSE Max(1, Get(node, "level").n - 1)
    IN  WithXY(node,
               IF point.t = "number" THEN Num(point.n - width \div 2)
               ELSE Coalesce(Get(node, "x"), Num(0)),
               Num(TOP_ROW_Y + ROW_SPACING * rowIndex))

\* graph.node(id) after dagre.layout(graph): points gives the x dagre chose
\* for the centre of each node it was given
PointOf(points, id) == IF id \in DOMAIN points THEN Num(points[id]) ELSE Undef

\* node.x = x; node.y = TOP_ROW_Y
Pin(node, x) == WithXY(node, Num(x), Num(TOP_ROW_Y))

IsArtworkA(node) == Get(node, "id") = ArtworkAId
IsArtworkB(node) == Get(node, "id") = ArtworkBId

\* edges.forEach(...): the edges set in the dagre graph, as pairs of source
\* and target: those whose source and target are both found among the nodes
graphEdges(nodes, edges) ==
    LET Found(id) == \E i \in DOMAIN nodes : Get(nodes[i], "id") = id
        BothFound(edge) == Found(Get(edge, "source")) /\ Found(Get(edge, "target"))
        set == SelectSeq(edges, BothFound)
    IN  [i \in DOMAIN set |-> <<Get(set[i], "source"), Get(set[i], "target")>>]

\* the anchors left where dagre put them
layoutWithDagre_Unpinned(nodes, edges, points) ==
    LET mapped == [i \in DOMAIN nodes |->
                     MappedNode(nodes[i], PointOf(points, Get(nodes[i], "id")))]
        l1 == FirstIndex({i \in DOMAIN mapped : IsL1(mapped[i])})
    IN  [i \in DOMAIN mapped |->
            IF i = l1 THEN Pin(mapped[i], centerX) ELSE mapped[i]]

\* the central node centred between the left edges of the anchors
layoutWithDagre_BetweenLeftEdges(nodes, edges, points) ==
    LET mapped == [i \in DOMAIN nodes |->
                     MappedNode(nodes[i], PointOf(points, Get(nodes[i], "id")))]
        artworkA == FirstIndex({i \in DOMAIN mapped : IsArtworkA(mapped[i])})
        artworkB == FirstIndex({i \in DOMAIN mapped : IsArtworkB(mapped[i])})
        l1 == FirstIndex({i \in DOMAIN mapped : IsL1(mapped[i])})
    IN  [i \in DOMAIN mapped |->
            IF i = l1 THEN Pin(mapped[i], (leftX + rightX) \div 2 - CATEGORY_NODE_WIDTH \div 2)
            ELSE IF i = artworkB THEN Pin(mapped[i], rightX)
            ELSE IF i = artworkA THEN Pin(mapped[i], leftX)
            ELSE mapped[i]]

\* the three pins are applied in the order artworkA, artworkB, l1 to the
\* objects found, so where two of them are the same object the later wins
layoutWithDagre(nodes, edges, points) ==
    LET mapped == [i \in DOMAIN nodes |->
                     MappedNode(nodes[i], PointOf(points, Get(nodes[i], "id")))]
        artworkA == FirstIndex({i \in DOMAIN mapped : IsArtworkA(mapped[i])})
        artworkB == FirstIndex({i \in DOMAIN mapped : IsArtworkB(mapped[i])})
        l1 == FirstIndex({i \in DOMAIN mapped : IsL1(mapped[i])})
    IN  [i \in DOMAIN mapped |->
            IF i = l1 THEN Pin(mapped[i], centerX)
            ELSE IF i = artworkB THEN Pin(mapped[i], rightX)
            ELSE IF i = artworkA THEN Pin(mapped[i], leftX)
            ELSE mapped[i]]

-----------------------------------------------------------------------------
(* DiagramCanvas *)

\* a node of React Flow
FlowNode(id, type, data, x, y, width, height) ==
    [id |-> id, type |-> type, data |-> data, position |-> [x |-> x, y |-> y],
     width |-> width, height |-> height]

\* { ...artwork, tag }
Tagged(artwork, tag) ==
    Obj([k \in DOMAIN artwork.f \cup {"tag"} |->
            IF k = "tag" THEN Str(<<tag>>) ELSE artwork.f[k]])

fallbackNodes(artworkA, artworkB) ==
    <<FlowNode(ArtworkAId, "paintingCard", Tagged(artworkA, "Artwork A"), 80, 20,
               ARTWORK_NODE_WIDTH, ARTWORK_NODE_HEIGHT),
      FlowNode(ArtworkBId, "paintingCard", Tagged(artworkB, "Artwork B"), 620, 20,
               ARTWORK_NODE_WIDTH, ARTWORK_NODE_HEIGHT),
      FlowNode(Str(<<"L1">>), "category",
               Obj([id |-> Str(<<"L1">>), type |-> NicheConnection,
                    label |-> Str(<<"Connection could not be structured">>),
                    level |-> Num(1)]),
               360, 20, CATEGORY_NODE_WIDTH, CATEGORY_NODE_HEIGHT)>>

fallbackEdges ==
    <<[id |-> Str(<<"edge-artworkA-L1">>), source |-> ArtworkAId, target |-> Str(<<"L1">>),
       type |-> "step", label |-> Undef],
      [id |-> Str(<<"edge-artworkB-L1">>), source |-> ArtworkBId, target |-> Str(<<"L1">>),
       type |-> "step", label |-> Undef]>>

\* normalizedNodes.map((node) => ...)
flowNode(node, artworkA, artworkB) ==
    LET x == Coalesce(Get(node, "x"), Num(0)).n
        y == Coalesce(Get(node, "y"), Num(0)).n
    IN  IF Get(node, "id") = ArtworkAId
        THEN FlowNode(Get(node, "id"), "paintingCard", Tagged(artworkA, "Artwork A"),
                      x, y, ARTWORK_NODE_WIDTH, ARTWORK_NODE_HEIGHT)
        ELSE IF Get(node, "id") = ArtworkBId
        THEN FlowNode(Get(node, "id"), "paintingCard", Tagged(artworkB, "Artwork B"),
                      x, y, ARTWORK_NODE_WIDTH, ARTWORK_NODE_HEIGHT)
        ELSE FlowNode(Get(node, "id"), "category", node, x, y,
                      CATEGORY_NODE_WIDTH, CATEGORY_NODE_HEIGHT)

flowEdge(edge) ==
    [id |-> Get(edge, "id"), source |-> Get(edge, "source"),
     target |-> Get(edge, "target"), type |-> "step",
     label |-> IF Truthy(Get(edge, "label"))
               THEN Str(truncateLabel(Get(edge, "label").s)) ELSE Undef]

\* the memo with every edge of the diagram kept
CanvasGraph_EveryEdge(diagramProp, artworkA, artworkB, points) ==
    IF ~Truthy(diagramProp) \/ ~IsArray(Get(diagramProp, "nodes"))
       \/ ~IsArray(Get(diagramProp, "edges"))
    THEN [nodes |-> fallbackNodes(artworkA, artworkB), edges |-> fallbackEdges]
    ELSE LET normalizedNodes == layoutWithDagre(Get(diagramProp, "nodes").items,
                                                Get(diagramProp, "edges").items, points)
             kept == Get(diagramProp, "edges").items
         IN  [nodes |-> [i \in DOMAIN normalizedNodes |->
                            flowNode(normalizedNodes[i], artworkA, artworkB)],
              edges |-> [i \in DOMAIN kept |-> flowEdge(kept[i])]]

\* the useMemo of DiagramCanvas: the nodes and edges for React Flow
CanvasGraph(diagramProp, artworkA, artworkB, points) ==
    IF ~Truthy(diagramProp) \/ ~IsArray(Get(diagramProp, "nodes"))
       \/ ~IsArray(Get(diagramProp, "edges"))
    THEN [nodes |-> fallbackNodes(artworkA, artworkB), edges |-> fallbackEdges]
    ELSE LET normalizedNodes == layoutWithDagre(Get(diagramProp, "nodes").items,
                                                Get(diagramProp, "edges").items, points)
             nodeIds == {Get(normalizedNodes[i], "id") : i \in DOMAIN normalizedNodes}
             Kept(edge) == Get(edge, "source") \in nodeIds /\ Get(edge, "target") \in nodeIds
             kept == SelectSeq(Get(diagramProp, "edges").items, Kept)
         IN  [nodes |-> [i \in DOMAIN normalizedNodes |->
                            flowNode(normalizedNodes[i], artworkA, artworkB)],
              edges |-> [i \in DOMAIN kept |-> flowEdge(kept[i])]]

\* the fallback graph without its second edge
DiagramCanvas_OneFallbackEdge(diagramProp, artworkA, artworkB, loadingProp, points) ==
    LET memo == CanvasGraph(diagramProp, artworkA, artworkB, points)
        graph == IF memo.edges = fallbackEdges
                 THEN [memo EXCEPT !.edges = <<fallbackEdges[1]>>] ELSE memo
    IN  [view |-> IF loadingProp THEN "generating"
                  ELSE IF graph.nodes = <<>> THEN "unavailable" ELSE "graph",
         nodes |-> graph.nodes, edges |-> graph.edges]

\* what DiagramCanvas shows: "Generating diagram..." while loading,
\* "Diagram unavailable. ..." for a graph without nodes, else React Flow
\* with the nodes and edges of the memo
DiagramCanvas(diagramProp, artworkA, artworkB, loadingProp, points) ==
    LET graph == CanvasGraph(diagramProp, artworkA, artworkB, points)
    IN  [view |-> IF loadingProp THEN "generating"
                  ELSE IF graph.nodes = <<>> THEN "unavailable" ELSE "graph",
         nodes |-> graph.nodes, edges |-> graph.edges]

-----------------------------------------------------------------------------
(* Messages of runCompare *)

ValidationMessage == Str(<<"Please select two paintings first.">>)
StartFailedMessage == Str(<<"Summary request failed.">>)
NoJobIdMessage == Str(<<"Unable to start comparison.">>)
StatusFailedMessage == Str(<<"Unable to fetch comparison.">>)
TimeoutMessage == Str(<<"The summary request timed out.">>)
SummaryPlaceholder == Str(<<"Summary unavailable.">>)

-----------------------------------------------------------------------------
(* What the page and the comparison service may hand to the component *)

EmptyString == Str(<<>>)

\* ids as they come from the URL: empty (missing) or a value
Ids == {EmptyString, Str(<<"A">>)}

\* <<setId, leftId, rightId>>: all present, or one of them missing
IdTriples ==
    {t \in Ids \X Ids \X Ids : Cardinality({i \in 1..3 : ~Truthy(t[i])}) <= 1}

\* a rejected fetch that is not an abort (err.message of the TypeError)
NetworkErrorMessage == Str(<<"Failed to fetch">>)

\* bodies of a non-success response
ErrorBodies == {EmptyString, Str(<<"Compare job not found">>)}

\* responses to POST /api/compare/start
StartResponses ==
    {[ok |-> TRUE, text |-> EmptyString, compare_id |-> Str(<<"job-1">>)],
     [ok |-> TRUE, text |-> EmptyString, compare_id |-> Undef]}
    \cup {[ok |-> FALSE, text |-> b, compare_id |-> Undef] : b \in ErrorBodies}

SummaryA == Str(<<"prefix", " ", Marker, ":", " ", "rest">>)
SummaryB == Str(<<"no marker here">>)

CanonicalDiagram ==
    Obj([nodes |-> Arr(<<Obj([id |-> Str(<<"n1">>), type |-> Str(<<"theme">>),
                              label |-> Str(<<"Light">>), level |-> Num(1)])>>),
         edges |-> Arr(<<>>)])

LegacyDiagram ==
    Obj([elements |->
         Obj([nodes |-> Arr(<<Obj([data |-> Obj([name |-> Str(<<"Water">>)])])>>),
              edges |-> Arr(<<>>)])])

MalformedDiagram == Obj([elements |-> Obj([nodes |-> Arr(<<>>)])])

SummaryFields == {Undef, SummaryA, SummaryB}
DiagramFields == {Undef, CanonicalDiagram, LegacyDiagram, MalformedDiagram}
ErrorMessageFields == {Undef, Str(<<"LLM call failed">>)}

\* bodies of a successful GET /api/compare/{id}
StatusPayloads ==
    {[status |-> st, summary_markdown |-> sm, diagram |-> dg, error_message |-> Undef] :
        st \in {"processing", "done"}, sm \in SummaryFields, dg \in DiagramFields}
    \cup {[status |-> "error", summary_markdown |-> Undef, diagram |-> Undef,
           error_message |-> em] : em \in ErrorMessageFields}

-----------------------------------------------------------------------------
(* CompareClient *)

Idle == "idle"                  \* no call of runCompare in this slot
AwaitStart == "awaitStart"      \* await fetch("/api/compare/start")
AwaitStatus == "awaitStatus"    \* await fetch(`/api/compare/${id}`)
AwaitDelay == "awaitDelay"      \* await new Promise(... setTimeout(resolve, 900))

InFlight(r) == pc[r] # Idle
NoRunInFlight == \A r \in Runs : ~InFlight(r)
FreeRuns == {r \in Runs : ~InFlight(r)}

\* no helper is being called on its own
NoCall == [fn |-> "none"]

\* the other pages are not open
NoPage == [page |-> "none"]
NoPages == results = NoPage /\ selection = NoPage

\* the component as constructed, before its mount effect
Unmounted ==
    /\ summaryText = JNull
    /\ diagram = JNull
    /\ error = JNull
    /\ loading = TRUE
    /\ \E t \in IdTriples : setId = t[1] /\ leftId = t[2] /\ rightId = t[3]
    /\ mounted = FALSE
    /\ pc = [r \in Runs |-> Idle]
    /\ attempts = [r \in Runs |-> 0]
    /\ summaryFound = [r \in Runs |-> FALSE]
    /\ aborted = [r \in Runs |-> FALSE]
    /\ startRequests = [r \in Runs |-> 0]
    /\ statusRequests = [r \in Runs |-> 0]
    /\ gotDiagram = [r \in Runs |-> FALSE]
    /\ gotSummary = [r \in Runs |-> FALSE]
    /\ gotError = [r \in Runs |-> FALSE]
    /\ latest = 0
    /\ last = [ev |-> "init", run |-> 0]

Init == Unmounted /\ call = NoCall /\ NoPages

\* the locals of slot r as a finished (or not yet started) call leaves them
ResetLocals(r) ==
    /\ pc' = [pc EXCEPT ![r] = Idle]
    /\ attempts' = [attempts EXCEPT ![r] = 0]
    /\ summaryFound' = [summaryFound EXCEPT ![r] = FALSE]
    /\ aborted' = [aborted EXCEPT ![r] = FALSE]
    /\ startRequests' = [startRequests EXCEPT ![r] = 0]
    /\ statusRequests' = [statusRequests EXCEPT ![r] = 0]
    /\ gotDiagram' = [gotDiagram EXCEPT ![r] = FALSE]
    /\ gotSummary' = [gotSummary EXCEPT ![r] = FALSE]
    /\ gotError' = [gotError EXCEPT ![r] = FALSE]

\* catch (err) { setError(message) } finally { clearTimeout(timeout); setLoading(false) }
Fail(r, message, ev) ==
    /\ error' = message
    /\ loading' = FALSE
    /\ ResetLocals(r)
    /\ last' = [ev |-> ev, run |-> r]
    /\ UNCHANGED <<summaryText, diagram>>

\* runCompare without its guard on empty ids
runCompare_NoValidation(r, i) ==
    /\ loading' = TRUE
    /\ error' = JNull
    /\ summaryText' = JNull
    /\ diagram' = JNull
    /\ pc' = [pc EXCEPT ![r] = AwaitStart]
    /\ startRequests' = [startRequests EXCEPT ![r] = 1]
    /\ last' = [ev |-> IF ~Truthy(i[2]) \/ ~Truthy(i[3]) \/ ~Truthy(i[1])
                       THEN "validation" ELSE "start", run |-> r]
    /\ latest' = r
    /\ UNCHANGED <<attempts, summaryFound, aborted, statusRequests,
                   gotDiagram, gotSummary, gotError>>

\* runCompare up to its first await, in slot r, with the ids i = <<set, left, right>>
runCompare(r, i) ==
    IF ~Truthy(i[2]) \/ ~Truthy(i[3]) \/ ~Truthy(i[1])
    THEN /\ error' = ValidationMessage
         /\ loading' = FALSE
         /\ summaryText' = JNull
         /\ last' = [ev |-> "validation", run |-> r]
         /\ latest' = r
         /\ UNCHANGED <<diagram, locals>>
    ELSE /\ loading' = TRUE
         /\ error' = JNull
         /\ summaryText' = JNull
         /\ diagram' = JNull
         /\ pc' = [pc EXCEPT ![r] = AwaitStart]
         /\ startRequests' = [startRequests EXCEPT ![r] = 1]
         /\ last' = [ev |-> "start", run |-> r]
         /\ latest' = r
         /\ UNCHANGED <<attempts, summaryFound, aborted, statusRequests,
                        gotDiagram, gotSummary, gotError>>

LowestFree == CHOOSE r \in FreeRuns : \A q \in FreeRuns : r <= q

\* useEffect(() => { runCompare(); }, [runCompare]) at mount. With
\* reactStrictMode (next.config.js) a development build runs the effect twice
\* in the same commit: two calls of runCompare before any response.
Mount(strict) ==
    /\ ~mounted
    /\ mounted' = TRUE
    /\ IF strict /\ Truthy(setId) /\ Truthy(leftId) /\ Truthy(rightId)
       THEN /\ MaxRuns >= 2
            /\ loading' = TRUE
            /\ error' = JNull
            /\ summaryText' = JNull
            /\ diagram' = JNull
            /\ pc' = [r \in Runs |-> IF r <= 2 THEN AwaitStart ELSE pc[r]]
            /\ startRequests' = [r \in Runs |-> IF r <= 2 THEN 1 ELSE startRequests[r]]
            /\ last' = [ev |-> "start", run |-> 2]
            /\ latest' = 2
            /\ UNCHANGED <<attempts, summaryFound, aborted, statusRequests,
                           gotDiagram, gotSummary, gotError>>
       ELSE runCompare(LowestFree, <<setId, leftId, rightId>>)
    /\ UNCHANGED <<props, call, pages>>

\* new ids (navigation to /compare with other query parameters) make a new
\* runCompare, and the effect runs it
IdsChange(s, l, rr) ==
    /\ mounted
    /\ <<s, l, rr>> # <<setId, leftId, rightId>>
    /\ FreeRuns # {}
    /\ setId' = s /\ leftId' = l /\ rightId' = rr
    /\ runCompare(LowestFree, <<s, l, rr>>)
    /\ UNCHANGED <<mounted, call, pages>>

\* the "Try again" button of OverviewPanel: shown when !loading && error
\* (onRetry={runCompare}, so the call uses the current ids)
Retry ==
    /\ mounted
    /\ ~loading /\ Truthy(error)
    /\ FreeRuns # {}
    /\ runCompare(LowestFree, <<setId, leftId, rightId>>)
    /\ UNCHANGED <<props, mounted, call, pages>>

\* the end of the loop with the placeholder set whenever no summary came with
\* the last response (setSummaryText("Summary unavailable.") without prev ??)
Finish_PlaceholderOverwrites(r, text, found, ev) ==
    /\ summaryText' = IF found THEN text ELSE SummaryPlaceholder
    /\ loading' = FALSE
    /\ ResetLocals(r)
    /\ last' = [ev |-> ev, run |-> r]
    /\ UNCHANGED error

\* the end of the loop without the placeholder
Finish_NoPlaceholder(r, text, found, ev) ==
    /\ summaryText' = text
    /\ loading' = FALSE
    /\ ResetLocals(r)
    /\ last' = [ev |-> ev, run |-> r]
    /\ UNCHANGED error

\* the loop is left (break, or attempts = 20):
\* if (!summaryFound) setSummaryText((prev) => prev ?? "Summary unavailable.")
\* and then finally { clearTimeout(timeout); setLoading(false) }
Finish(r, text, found, ev) ==
    /\ summaryText' = IF found THEN text ELSE Coalesce(text, SummaryPlaceholder)
    /\ loading' = FALSE
    /\ ResetLocals(r)
    /\ last' = [ev |-> ev, run |-> r]
    /\ UNCHANGED error

\* the start request is answered
StartResponse(r, resp) ==
    /\ pc[r] = AwaitStart
    /\ IF ~resp.ok
       THEN Fail(r, IF Truthy(resp.text) THEN resp.text ELSE StartFailedMessage,
                 "startFailed")
       ELSE IF ~Truthy(resp.compare_id)
       THEN Fail(r, NoJobIdMessage, "noJobId")
       ELSE /\ pc' = [pc EXCEPT ![r] = AwaitStatus]
            /\ attempts' = [attempts EXCEPT ![r] = 0]
            /\ summaryFound' = [summaryFound EXCEPT ![r] = FALSE]
            /\ statusRequests' = [statusRequests EXCEPT ![r] = @ + 1]
            /\ last' = [ev |-> "started", run |-> r]
            /\ UNCHANGED <<reactState, aborted, startRequests, gotDiagram, gotSummary, gotError>>
    /\ UNCHANGED <<props, mounted, latest, call, pages>>

\* the request in flight is rejected for a reason other than the abort
RequestRejected(r) ==
    /\ pc[r] \in {AwaitStart, AwaitStatus}
    /\ Fail(r, NetworkErrorMessage, "rejected")
    /\ UNCHANGED <<props, mounted, latest, call, pages>>

\* summaryText after the body of one loop iteration for payload p
SummaryAfter(p) ==
    IF p.status = "done"
    THEN IF Truthy(p.summary_markdown)
         THEN Str(extractComparisonSummary(p.summary_markdown.s))
         ELSE EmptyString
    ELSE IF Truthy(p.summary_markdown)
         THEN Str(extractComparisonSummary(p.summary_markdown.s))
         ELSE summaryText

\* the diagram published only by the done response
DiagramAfter_OnlyWhenDone(p) ==
    IF p.status = "done" THEN normalizeDiagramPayload(p.diagram) ELSE diagram

\* diagram after the body of one loop iteration for payload p
DiagramAfter(p) ==
    IF p.status = "done"
    THEN normalizeDiagramPayload(p.diagram)
    ELSE IF Truthy(p.diagram)
         THEN normalizeDiagramPayload(p.diagram)
         ELSE diagram

\* a non-success status response reported by its body even when it is empty
StatusFailed_BodyOnly(r, body) ==
    /\ pc[r] = AwaitStatus
    /\ Fail(r, body, "statusFailed")
    /\ UNCHANGED <<props, mounted, latest, call, pages>>

\* a status request is answered with a non-success response
StatusFailed(r, body) ==
    /\ pc[r] = AwaitStatus
    /\ Fail(r, IF Truthy(body) THEN body ELSE StatusFailedMessage, "statusFailed")
    /\ UNCHANGED <<props, mounted, latest, call, pages>>

\* a status request is answered with the job payload p: one loop iteration
StatusResponse(r, p) ==
    /\ pc[r] = AwaitStatus
    /\ diagram' = DiagramAfter(p)
    /\ IF p.status = "done"
       THEN Finish(r, SummaryAfter(p), Truthy(p.summary_markdown), "done")
       ELSE /\ summaryText' = SummaryAfter(p)
            /\ summaryFound' = [summaryFound EXCEPT ![r] = @ \/ Truthy(p.summary_markdown)]
            /\ gotSummary' = [gotSummary EXCEPT ![r] = @ \/ Truthy(p.summary_markdown)]
            /\ gotDiagram' = [gotDiagram EXCEPT ![r] = @ \/ Truthy(p.diagram)]
            /\ gotError' = [gotError EXCEPT ![r] = @ \/ p.status = "error"]
            /\ attempts' = [attempts EXCEPT ![r] = @ + 1]
            /\ pc' = [pc EXCEPT ![r] = AwaitDelay]
            /\ last' = [ev |-> IF p.status = "error" THEN "jobError" ELSE "processing",
                        run |-> r]
            /\ UNCHANGED <<error, loading, aborted, startRequests, statusRequests>>
    /\ UNCHANGED <<props, mounted, latest, call, pages>>

\* the loop condition off by one: while (attempts <= 20)
DelayOver_OffByOne(r) ==
    /\ pc[r] = AwaitDelay
    /\ IF attempts[r] <= MaxAttempts
       THEN IF aborted[r]
            THEN Fail(r, TimeoutMessage, "aborted")
            ELSE /\ pc' = [pc EXCEPT ![r] = AwaitStatus]
                 /\ statusRequests' = [statusRequests EXCEPT ![r] = @ + 1]
                 /\ last' = [ev |-> "poll", run |-> r]
                 /\ UNCHANGED <<reactState, attempts, summaryFound, aborted,
                                startRequests, gotDiagram, gotSummary, gotError>>
       ELSE /\ Finish(r, summaryText, summaryFound[r],
                     IF gotError[r] THEN "exhaustedAfterError" ELSE "exhausted")
            /\ UNCHANGED diagram
    /\ UNCHANGED <<props, mounted, latest, call, pages>>

\* the 900 ms delay is over: the loop condition, then the next fetch (which a
\* signal already aborted rejects at once, without a request) or the loop's end
DelayOver(r) ==
    /\ pc[r] = AwaitDelay
    /\ IF attempts[r] < MaxAttempts
       THEN IF aborted[r]
            THEN Fail(r, TimeoutMessage, "aborted")
            ELSE /\ pc' = [pc EXCEPT ![r] = AwaitStatus]
                 /\ statusRequests' = [statusRequests EXCEPT ![r] = @ + 1]
                 /\ last' = [ev |-> "poll", run |-> r]
                 /\ UNCHANGED <<reactState, attempts, summaryFound, aborted,
                                startRequests, gotDiagram, gotSummary, gotError>>
       ELSE /\ Finish(r, summaryText, summaryFound[r],
                     IF gotError[r] THEN "exhaustedAfterError" ELSE "exhausted")
            /\ UNCHANGED diagram
    /\ UNCHANGED <<props, mounted, latest, call, pages>>

\* setTimeout(() => controller.abort(), 25000) fires: a fetch in flight is
\* rejected with an AbortError, which the catch block reports
TimerFires(r) ==
    /\ InFlight(r)
    /\ ~aborted[r]
    /\ IF pc[r] = AwaitDelay
       THEN /\ aborted' = [aborted EXCEPT ![r] = TRUE]
            /\ last' = [ev |-> "timer", run |-> r]
            /\ UNCHANGED <<reactState, pc, attempts, summaryFound, startRequests,
                           statusRequests, gotDiagram, gotSummary, gotError>>
       ELSE Fail(r, TimeoutMessage, "aborted")
    /\ UNCHANGED <<props, mounted, latest, call, pages>>

\* the payloads tried where two runs overlap
OverlapPayloads ==
    {p \in StatusPayloads :
        /\ p.summary_markdown \in {Undef, SummaryA}
        /\ p.diagram \in {Undef, CanonicalDiagram}
        /\ Truthy(p.summary_markdown) = Truthy(p.diagram)
        /\ p.error_message = Undef}

\* one step of a run, the service answering with a payload of P
RunStep(r, P) ==
    \/ \E resp \in StartResponses : StartResponse(r, resp)
    \/ RequestRejected(r)
    \/ \E body \in ErrorBodies : StatusFailed(r, body)
    \/ \E p \in P : StatusResponse(r, p)
    \/ DelayOver(r)
    \/ TimerFires(r)

Next ==
    \/ \E strict \in BOOLEAN : Mount(strict)
    \/ \E t \in IdTriples : IdsChange(t[1], t[2], t[3])
    \/ Retry
    \/ \E r \in Runs : RunStep(r, OverlapPayloads)

Spec == Init /\ [][Next]_vars

\* The component when runCompare is never re-entered: a production build (the
\* mount effect runs once) whose ids change only between runs.
NextSeq ==
    \/ Mount(FALSE)
    \/ \E t \in IdTriples : NoRunInFlight /\ IdsChange(t[1], t[2], t[3])
    \/ NoRunInFlight /\ Retry
    \/ \E r \in Runs : RunStep(r, StatusPayloads)

SpecSeq == Init /\ [][NextSeq]_vars

-----------------------------------------------------------------------------
(* normalizeDiagramPayload called on its own *)

\* longest array of a payload
MaxLen == 2

\* the data sub-object of a legacy node element (undefined: property absent)
LegacyNodeData ==
    {Obj([id |-> i, label |-> l, name |-> n]) :
        i \in {Undef, JNull, Str(<<"n1">>)},
        l \in {Undef, EmptyString, Str(<<"Light">>), Num(7)},
        n \in {Undef, Str(<<"Motif">>)}}

\* legacy node elements { data: {...} }, data possibly missing
LegacyNodeElements == {Obj([data |-> d]) : d \in LegacyNodeData \cup {Undef}}

\* the data sub-object of a legacy edge element
LegacyEdgeData ==
    {Obj([id |-> i, source |-> src, target |-> Str(<<"n2">>), label |-> l]) :
        i \in {Undef, Str(<<"e1">>)},
        src \in {Undef, Str(<<"n1">>), Num(3)},
        l \in {Undef, JNull, EmptyString, Str(<<"shares">>), Num(0)}}

LegacyEdgeElements == {Obj([data |-> d]) : d \in LegacyEdgeData \cup {Undef}}

\* array entries that are no objects
NonObjectEntries == {JNull, Undef, Num(5)}

\* arrays over E: every single entry, and every array of at most MaxLen
\* entries over the few
ArraysOver(E, few) ==
    {Arr(<<e>>) : e \in E}
    \cup UNION {{Arr(items) : items \in [1..n -> few]} : n \in 0..MaxLen}

\* node elements tried at every position of a longer array
FewNodeElements ==
    {Obj([data |-> Undef]),
     Obj([data |-> Obj([id |-> Str(<<"n1">>), label |-> Undef, name |-> Str(<<"Motif">>)])]),
     JNull}

FewEdgeElements ==
    {Obj([data |-> Undef]),
     Obj([data |-> Obj([id |-> Undef, source |-> Str(<<"n1">>), target |-> Str(<<"n2">>),
                        label |-> Str(<<"shares">>)])]),
     Undef}

\* values of elements.nodes / elements.edges
LegacyNodeArrays == ArraysOver(LegacyNodeElements \cup NonObjectEntries, FewNodeElements)
LegacyEdgeArrays == ArraysOver(LegacyEdgeElements \cup NonObjectEntries, FewEdgeElements)

\* values that are no arrays
NonArrays == {Undef, JNull, Str(<<"n1">>), Obj([length |-> Num(0)])}

\* values of the elements property
ElementsFields ==
    {Obj([nodes |-> n, edges |-> e]) : n \in LegacyNodeArrays, e \in LegacyEdgeArrays}
    \cup {Obj([nodes |-> n, edges |-> e]) : n \in NonArrays, e \in LegacyEdgeArrays}
    \cup {Obj([nodes |-> n, edges |-> e]) : n \in LegacyNodeArrays, e \in NonArrays}
    \cup {Undef, JNull, EmptyString, Num(0), Str(<<"graph">>)}

\* DiagramNode and DiagramEdge values of a canonical payload
NodeN1 == Obj([id |-> Str(<<"n1">>), type |-> Str(<<"theme">>),
               label |-> Str(<<"Light">>), level |-> Num(2)])
EdgeE1 == Obj([id |-> Str(<<"e1">>), source |-> Str(<<"artworkA">>),
               target |-> Str(<<"n1">>), kind |-> Str(<<"contextual">>),
               label |-> JNull])

CanonicalNodeArrays == {Arr(<<>>), Arr(<<NodeN1>>), Arr(<<JNull, NodeN1>>)}
CanonicalEdgeArrays == {Arr(<<>>), Arr(<<EdgeE1>>)}
LayoutFields == {Undef, JNull, Obj([direction |-> Str(<<"TB">>)])}

\* values of elements next to nodes and edges
FewElementsFields ==
    {Undef, JNull,
     Obj([nodes |-> Arr(<<Obj([data |-> Undef])>>), edges |-> Arr(<<>>)]),
     Obj([nodes |-> Arr(<<Obj([data |-> Undef])>>), edges |-> Undef])}

\* the raw payloads normalizeDiagramPayload is called with
RawPayloads ==
    {Undef, JNull, EmptyString, Num(0), Num(5), Str(<<"graph">>), Arr(<<>>)}
    \cup {Obj([nodes |-> n, edges |-> e, layout |-> l, elements |-> el]) :
            n \in CanonicalNodeArrays \cup NonArrays,
            e \in CanonicalEdgeArrays \cup NonArrays,
            l \in LayoutFields, el \in FewElementsFields}
    \cup {Obj([elements |-> el]) : el \in ElementsFields}

\* the variables of CompareClient
client == <<reactState, props, mounted, locals, latest, last>>

InitNormalize ==
    /\ Unmounted
    /\ Truthy(setId) /\ Truthy(leftId) /\ Truthy(rightId)
    /\ NoPages
    /\ call \in {[fn |-> "normalize", arg |-> raw, done |-> FALSE, result |-> Undef] :
                    raw \in RawPayloads}

\* normalizeDiagramPayload(payload) returns or throws
CallNormalize ==
    /\ call.fn = "normalize" /\ ~call.done
    /\ call' = [call EXCEPT !.done = TRUE, !.result = normalizeDiagramPayload(call.arg)]
    /\ UNCHANGED <<client, pages>>

NextNormalize == CallNormalize

SpecNormalize == InitNormalize /\ [][NextNormalize]_vars

-----------------------------------------------------------------------------
(* layoutWithDagre and DiagramCanvas called on their own *)

\* longest node list of a diagram
MaxNodes == 3

NodeIds == {ArtworkAId, ArtworkBId, Str(<<"n1">>), Str(<<"n2">>)}

\* type and level of a node: an artwork, a central node by its type, a
\* central node by its level, a node of a lower row
NodeKinds ==
    {[type |-> Str(<<"artwork">>), level |-> 0],
     [type |-> NicheConnection, level |-> 2],
     [type |-> Str(<<"theme">>), level |-> 1],
     [type |-> Str(<<"theme">>), level |-> 3]}

DiagramNodes ==
    {Obj([id |-> id, type |-> k.type, label |-> Str(<<"Light">>), level |-> Num(k.level)]) :
        id \in NodeIds, k \in NodeKinds}

\* node lists with ids that are unique (spec section 6)
DiagramNodeLists ==
    {ns \in UNION {[1..n -> DiagramNodes] : n \in 0..MaxNodes} :
        \A i, j \in DOMAIN ns : Get(ns[i], "id") = Get(ns[j], "id") => i = j}

DiagramEdge(id, source, target, label) ==
    Obj([id |-> Str(<<id>>), source |-> source, target |-> target,
         kind |-> Str(<<"contextual">>), label |-> label])

DiagramEdgeLists ==
    {<<>>,
     <<DiagramEdge("e1", ArtworkAId, Str(<<"n1">>), JNull)>>,
     <<DiagramEdge("e1", Str(<<"n1">>), Str(<<"n2">>), Str(<<"o", "f">>)),
       DiagramEdge("e2", ArtworkBId, Str(<<"n1">>), EmptyString)>>}

\* the x dagre may give the centre of a node
DagreXs == {150, 500}

IdsOf(ns) == {Get(ns[i], "id") : i \in DOMAIN ns}

ArtworkInfoA ==
    Obj([id |-> Str(<<"p1">>), title |-> Str(<<"Water Lilies">>), artist |-> Str(<<"Monet">>),
         year |-> Str(<<"1906">>), imageUrl |-> Str(<<"/api/paintings/p1.jpg">>)])
ArtworkInfoB ==
    Obj([id |-> Str(<<"p2">>), title |-> Str(<<"Irises">>), artist |-> Str(<<"Van Gogh">>),
         year |-> JNull, imageUrl |-> Str(<<"/api/paintings/p2.jpg">>)])

\* values of the diagram prop: the state set from normalizeDiagramPayload,
\* and objects without the two arrays
CanvasDiagrams ==
    {JNull, normalizeDiagramPayload(LegacyDiagram),
     Obj([nodes |-> Undef, edges |-> Arr(<<>>)]),
     Obj([nodes |-> Arr(<<>>), edges |-> JNull])}
    \cup {Obj([nodes |-> Arr(ns), edges |-> Arr(es)]) :
            ns \in DiagramNodeLists, es \in DiagramEdgeLists}

\* a call not yet made
Pending(fn, arg) == [fn |-> fn, arg |-> arg, done |-> FALSE, result |-> Undef]

\* the x dagre gives in the calls of DiagramCanvas
CanvasPoints == [id \in NodeIds \cup {Str(<<"node-0">>)} |-> 150]

InitCanvas ==
    /\ Unmounted
    /\ Truthy(setId) /\ Truthy(leftId) /\ Truthy(rightId)
    /\ NoPages
    /\ \/ \E ns \in DiagramNodeLists : \E es \in DiagramEdgeLists :
          \E pts \in [IdsOf(ns) -> DagreXs] :
            call = Pending("layoutWithDagre", [nodes |-> ns, edges |-> es, points |-> pts])
       \/ \E d \in CanvasDiagrams : \E l \in BOOLEAN :
            call = Pending("DiagramCanvas",
                           [diagram |-> d, loading |-> l, points |-> CanvasPoints])

\* layoutWithDagre(nodes, edges) returns; graph holds the edges it had set
\* in the dagre graph
CallLayout ==
    /\ call.fn = "layoutWithDagre" /\ ~call.done
    /\ call' = [fn |-> call.fn, arg |-> call.arg, done |-> TRUE,
                result |-> layoutWithDagre(call.arg.nodes, call.arg.edges,
                                           call.arg.points),
                graph |-> graphEdges(call.arg.nodes, call.arg.edges)]
    /\ UNCHANGED <<client, pages>>

\* DiagramCanvas renders
RenderCanvas ==
    /\ call.fn = "DiagramCanvas" /\ ~call.done
    /\ call' = [call EXCEPT !.done = TRUE,
                             !.result = DiagramCanvas(call.arg.diagram, ArtworkInfoA,
                                                      ArtworkInfoB, call.arg.loading,
                                                      call.arg.points)]
    /\ UNCHANGED <<client, pages>>

NextCanvas == CallLayout \/ RenderCanvas

SpecCanvas == InitCanvas /\ [][NextCanvas]_vars

-----------------------------------------------------------------------------
(* The classifier and the text helpers called on their own *)

\* values of node.type: the DiagramNodeType values, other spellings, an
\* unknown type, no type
NodeTypes ==
    {Str(<<c>>) : c \in Categories \cup {"artwork", "Artist", "THEME", "Niche_Connection",
                                         "genre"}}
    \cup {Undef}

NodeLevels == {Num(0), Num(1), Num(2)}

ClassifiedNodes ==
    {Obj([id |-> Str(<<"n1">>), type |-> t, label |-> Str(<<"Light">>), level |-> l]) :
        t \in NodeTypes, l \in NodeLevels}

\* longest label body tried with every placing of its spaces
MaxLabel == 45

\* a label of n characters with spaces at the positions sp
LabelBody(n, sp) ==
    [i \in 1..n |-> IF i \in sp THEN " " ELSE IF i % 2 = 0 THEN "b" ELSE "a"]

\* at most two positions of 1..n
FewPositions(n) == {{}} \cup {{p, q} : p, q \in 1..n}

\* whitespace around a label
Paddings == {<<>>, <<" ">>, <<" ", "\t">>}

\* a run-on label of 100 characters, and with one space after 24 characters
LongLabels == {LabelBody(100, {}), LabelBody(100, {25}), LabelBody(100, {26, 41})}

\* inferCategory(node) returns
CallInferCategory ==
    /\ call.fn = "inferCategory" /\ ~call.done
    /\ call' = [call EXCEPT !.done = TRUE, !.result = inferCategory(call.arg)]
    /\ UNCHANGED <<client, pages>>

\* truncateLabel(label) returns
CallTruncateLabel ==
    /\ call.fn = "truncateLabel" /\ ~call.done
    /\ call' = [call EXCEPT !.done = TRUE, !.result = truncateLabel(call.arg)]
    /\ UNCHANGED <<client, pages>>

\* longest summary text, in chunks
MaxText == 5

\* the chunks of a summary given to extractComparisonSummary: the marker,
\* the marker in another case, separators, white space, a word
TextChunks == {Marker, "**comparison summary**", ":", "-", " ", "rest"}

SummaryTexts == UNION {[1..n -> TextChunks] : n \in 0..MaxText}

\* extractComparisonSummary(text) returns
CallExtract ==
    /\ call.fn = "extractComparisonSummary" /\ ~call.done
    /\ call' = [call EXCEPT !.done = TRUE, !.result = extractComparisonSummary(call.arg)]
    /\ UNCHANGED <<client, pages>>

\* longest summary given to replaceArtworkLabels, in chunks
MaxSummary == 4

\* the chunks of such a summary
TokenChunks == {"Artwork", "artwork", "A", "B", "b", "An", " ", "."}

TokenSummaries == UNION {[1..n -> TokenChunks] : n \in 1..MaxSummary}

\* titles of artworkA and of artworkB
TitlesA == {<<"Water", " ", "Lilies">>, <<"Study", " ", "for", " ", "Artwork", " ", "B">>}
TitlesB == {<<"Irises">>, <<"Artwork", " ", "A">>}

Titled(artwork, title) == Obj([artwork.f EXCEPT !.title = Str(title)])

\* replaceArtworkLabels(summary, artworkA, artworkB) returns
CallReplace ==
    /\ call.fn = "replaceArtworkLabels" /\ ~call.done
    /\ call' = [call EXCEPT !.done = TRUE,
                             !.result = replaceArtworkLabels(call.arg.summary, call.arg.artworkA,
                                                             call.arg.artworkB)]
    /\ UNCHANGED <<client, pages>>

InitHelpers ==
    /\ Unmounted
    /\ Truthy(setId) /\ Truthy(leftId) /\ Truthy(rightId)
    /\ NoPages
    /\ \/ \E node \in ClassifiedNodes : call = Pending("inferCategory", node)
       \/ \E n \in 0..MaxLabel : \E sp \in FewPositions(n) : \E pad \in Paddings :
            call = Pending("truncateLabel", pad \o LabelBody(n, sp) \o pad)
       \/ \E label \in LongLabels : call = Pending("truncateLabel", label)
       \/ \E text \in SummaryTexts : call = Pending("extractComparisonSummary", text)
       \/ \E summary \in TokenSummaries : \E ta \in TitlesA : \E tb \in TitlesB :
            call = Pending("replaceArtworkLabels",
                           [summary |-> summary, artworkA |-> Titled(ArtworkInfoA, ta),
                            artworkB |-> Titled(ArtworkInfoB, tb)])

NextHelpers == CallInferCategory \/ CallTruncateLabel \/ CallExtract \/ CallReplace

SpecHelpers == InitHelpers /\ [][NextHelpers]_vars

-----------------------------------------------------------------------------
(* The Results page of the legacy frontend (frontend/src/pages) *)

\* status requests the poller of Results may issue
MaxPolls == 3

Polls == 1..MaxPolls

Unsent == "unsent"      \* poll() was not yet called for this request
Sent == "sent"          \* await fetch(...): the service has not answered yet
Handled == "handled"    \* this call of poll() has returned

JobStatuses == {"processing", "done", "error"}
TerminalStatuses == {"done", "error"}

\* compareId of the app state: not set, or the id of a job
CompareIds == {EmptyString, Str(<<"job-1">>)}

FetchFailedStatus ==
    [status |-> "error", error_message |-> Str(<<"Failed to fetch results.">>)]

\* the body the service sends for a job in status st
StatusBody(st) ==
    [status |-> st,
     error_message |-> IF st = "error" THEN Str(<<"LLM call failed">>) ELSE Undef]

\* Results as constructed, before its effect: requests[k] is where the k-th
\* call of poll() is (the status there is the one the service has answered
\* with and the response has not been handled yet), job is the status of
\* the job at the service
ResultsConstructed(id, st) ==
    [page |-> "Results", phase |-> "constructed", compareId |-> id,
     status |-> [status |-> "processing", error_message |-> Undef],
     active |-> FALSE, intervalId |-> "unset",
     requests |-> [k \in Polls |-> Unsent], job |-> st]

InitResults ==
    /\ Unmounted
    /\ Truthy(setId) /\ Truthy(leftId) /\ Truthy(rightId)
    /\ call = NoCall
    /\ selection = NoPage
    /\ \E id \in CompareIds : \E st \in JobStatuses :
          results = ResultsConstructed(id, st)

\* the effect of Results: without a compareId navigate("/choose-set"), else
\* poll() and setInterval(poll, 1000)
ResultsEffect ==
    /\ results.page = "Results" /\ results.phase = "constructed"
    /\ results' =
          IF ~Truthy(results.compareId)
          THEN [results EXCEPT !.phase = "redirected"]
          ELSE [results EXCEPT !.phase = "polling", !.active = TRUE,
                               !.intervalId = "running", !.requests[1] = Sent]
    /\ UNCHANGED <<client, call, selection>>

\* the interval fires: poll() issues the next request, whatever became of
\* the requests before it
IntervalFires ==
    /\ results.page = "Results" /\ results.intervalId = "running"
    /\ \E k \in Polls :
          /\ results.requests[k] = Unsent
          /\ \A j \in Polls : j < k => results.requests[j] # Unsent
          /\ results' = [results EXCEPT !.requests[k] = Sent]
    /\ UNCHANGED <<client, call, selection>>

\* the job at the service ends
JobEnds(st) ==
    /\ results.page = "Results" /\ results.job = "processing"
    /\ results' = [results EXCEPT !.job = st]
    /\ UNCHANGED <<client, call, selection>>

\* the service answers request k with the status the job has now
ServiceAnswers(k) ==
    /\ results.page = "Results" /\ results.requests[k] = Sent
    /\ results' = [results EXCEPT !.requests[k] = results.job]
    /\ UNCHANGED <<client, call, selection>>

\* the response to request k arrives and poll() goes on after its awaits:
\* if (!active) return; setStatus(data); clearInterval on done or error
poll(k) ==
    /\ results.page = "Results" /\ results.requests[k] \in JobStatuses
    /\ results' =
          IF ~results.active
          THEN [results EXCEPT !.requests[k] = Handled]
          ELSE [results EXCEPT
                  !.requests[k] = Handled,
                  !.status = StatusBody(results.requests[k]),
                  !.intervalId = IF results.requests[k] \in TerminalStatuses
                                 THEN "cleared" ELSE @]
    /\ UNCHANGED <<client, call, selection>>

\* the fetch of request k is rejected, or its body is no JSON: the catch
\* block of poll()
pollCatch(k) ==
    /\ results.page = "Results" /\ results.requests[k] \in {Sent} \cup JobStatuses
    /\ results' =
          IF ~results.active
          THEN [results EXCEPT !.requests[k] = Handled]
          ELSE [results EXCEPT !.requests[k] = Handled,
                               !.status = FetchFailedStatus,
                               !.intervalId = "cleared"]
    /\ UNCHANGED <<client, call, selection>>

\* the cleanup of the effect: the page is left
ResultsCleanup ==
    /\ results.page = "Results" /\ results.phase = "polling"
    /\ results' = [results EXCEPT !.phase = "closed", !.active = FALSE,
                                  !.intervalId = "cleared"]
    /\ UNCHANGED <<client, call, selection>>

NextResults ==
    \/ ResultsEffect
    \/ IntervalFires
    \/ \E st \in TerminalStatuses : JobEnds(st)
    \/ \E k \in Polls : ServiceAnswers(k)
    \/ \E k \in Polls : poll(k)
    \/ \E k \in Polls : pollCatch(k)
    \/ ResultsCleanup

SpecResults == InitResults /\ [][NextResults]_vars

-----------------------------------------------------------------------------
(* The selection pages: SetSelectionClient (app/[setId]/selection-client)   *)
(* and ChoosePaintings of the legacy frontend                               *)

\* paintings shown on a selection page
MaxPaintings == 3

\* comparisons a selection page may start
MaxStarts == 2

PaintingIds == {Str(<<"p", ToString(i)>>) : i \in 1..MaxPaintings}

TooManyMessage == Str(<<"You can only select 2 paintings. Unselect one first.">>)
LoadFailedMessage == Str(<<"Failed to load paintings.">>)

\* prev.includes(id)
Includes(list, id) == \E i \in DOMAIN list : list[i] = id

\* prev.filter((item) => item !== id)
Without(list, id) ==
    LET Other(item) == item # id
    IN  SelectSeq(list, Other)

\* a selection page as constructed: selected is the useState array
\* (selectedIds in ChoosePaintings), starts counts the comparisons started
\* (router.push to /compare, or POST /api/compare/start), started holds the
\* left and right id of the last of them, request is the start request of
\* ChoosePaintings, last is the handler that ran last
SelectionConstructed(page) ==
    [page |-> page, selected |-> <<>>, message |-> EmptyString,
     loading |-> page = "ChoosePaintings", open |-> TRUE,
     starts |-> 0, started |-> <<>>, request |-> "none",
     last |-> [op |-> "none", id |-> Undef]]

InitSelection ==
    /\ Unmounted
    /\ Truthy(setId) /\ Truthy(leftId) /\ Truthy(rightId)
    /\ call = NoCall
    /\ results = NoPage
    /\ \E page \in {"SetSelectionClient", "ChoosePaintings"} :
          selection = SelectionConstructed(page)

\* the updater of toggleSelection without the limit of two
toggleSelection_NoLimit(id) ==
    /\ selection.page = "SetSelectionClient" /\ selection.open
    /\ selection' =
          [selection EXCEPT
              !.selected = IF Includes(@, id) THEN Without(@, id)
                           ELSE Append(@, id),
              !.last = [op |-> "toggle", id |-> id]]
    /\ UNCHANGED <<client, call, results>>

\* SetSelectionClient.toggleSelection(id): a click on the card of painting id
toggleSelection(id) ==
    /\ selection.page = "SetSelectionClient" /\ selection.open
    /\ selection' =
          [selection EXCEPT
              !.selected = IF Includes(@, id) THEN Without(@, id)
                           ELSE IF Len(@) >= 2 THEN @
                           ELSE Append(@, id),
              !.last = [op |-> "toggle", id |-> id]]
    /\ UNCHANGED <<client, call, results>>

\* SetSelectionClient.handleCompare: router.push(`/compare?left=...`) when
\* two paintings are selected, and the page is left
handleCompare ==
    /\ selection.page = "SetSelectionClient" /\ selection.open
    /\ selection' =
          IF Len(selection.selected) # 2
          THEN [selection EXCEPT !.last = [op |-> "compare", id |-> Undef]]
          ELSE [selection EXCEPT
                  !.starts = @ + 1,
                  !.started = <<selection.selected[1], selection.selected[2]>>,
                  !.open = FALSE,
                  !.last = [op |-> "compare", id |-> Undef]]
    /\ UNCHANGED <<client, call, results>>

\* the paintings of the set arrive (or the request fails) in ChoosePaintings
PaintingsLoaded(ok) ==
    /\ selection.page = "ChoosePaintings" /\ selection.open /\ selection.loading
    /\ selection' = [selection EXCEPT
                        !.loading = FALSE,
                        !.message = IF ok THEN @ ELSE LoadFailedMessage,
                        !.last = [op |-> "loaded", id |-> Undef]]
    /\ UNCHANGED <<client, call, results>>

\* ChoosePaintings.toggleSelection(id): a click on the card of painting id,
\* which is rendered once loading is false
ChoosePaintings_toggleSelection(id) ==
    /\ selection.page = "ChoosePaintings" /\ selection.open /\ ~selection.loading
    /\ selection' =
          [selection EXCEPT
              !.message = IF ~Includes(selection.selected, id)
                             /\ Len(selection.selected) >= 2
                          THEN TooManyMessage ELSE EmptyString,
              !.selected = IF Includes(@, id) THEN Without(@, id)
                           ELSE IF Len(@) >= 2 THEN @
                           ELSE Append(@, id),
              !.last = [op |-> "toggle", id |-> id]]
    /\ UNCHANGED <<client, call, results>>

\* ChoosePaintings.handleNext up to its first await: the Proceed button is
\* disabled unless selectedIds.length === 2
handleNext ==
    /\ selection.page = "ChoosePaintings" /\ selection.open
    /\ Len(selection.selected) = 2
    /\ selection.starts < MaxStarts
    /\ selection' =
          [selection EXCEPT
              !.starts = @ + 1,
              !.started = <<selection.selected[1], selection.selected[2]>>,
              !.request = "pending",
              !.last = [op |-> "next", id |-> Undef]]
    /\ UNCHANGED <<client, call, results>>

\* the start request of handleNext is answered: with a compare_id,
\* setCompareId and navigate("/results"); without, the message
StartAnswered(compare_id) ==
    /\ selection.page = "ChoosePaintings" /\ selection.open
    /\ selection.request = "pending"
    /\ selection' =
          IF Truthy(compare_id)
          THEN [selection EXCEPT !.request = "none", !.open = FALSE,
                                 !.last = [op |-> "answered", id |-> Undef]]
          ELSE [selection EXCEPT !.request = "none", !.message = NoJobIdMessage,
                                 !.last = [op |-> "answered", id |-> Undef]]
    /\ UNCHANGED <<client, call, results>>

NextSelection ==
    \/ \E id \in PaintingIds : toggleSelection(id)
    \/ handleCompare
    \/ \E ok \in BOOLEAN : PaintingsLoaded(ok)
    \/ \E id \in PaintingIds : ChoosePaintings_toggleSelection(id)
    \/ handleNext
    \/ \E compare_id \in {Undef, Str(<<"job-1">>)} : StartAnswered(compare_id)

SpecSelection == InitSelection /\ [][NextSelection]_vars

-----------------------------------------------------------------------------
(* Claims about runCompare *)

\* a call of runCompare is made in this step
RunCompareCalled ==
    \/ \E strict \in BOOLEAN : Mount(strict)
    \/ \E t \in IdTriples : IdsChange(t[1], t[2], t[3])
    \/ Retry

\* run r takes a step of its own (each changes pc[r] or aborted[r])
StepOf(r) == InFlight(r) /\ (pc'[r] # pc[r] \/ aborted'[r] # aborted[r])

\* C1: while a newer call of runCompare is the most recent one, no step of an
\* earlier run that is still in flight changes summaryText, diagram, error or
\* loading.
C1_OnlyLatestRunUpdates ==
    [][\A r \in Runs : (r # latest /\ StepOf(r)) => UNCHANGED reactState]_vars

\* C2: a call of runCompare with an empty setId, leftId or rightId ends in the
\* same step with the validation error set and loading = false, and issues no
\* start request and no status request.
C2_ValidationIssuesNoRequest ==
    [][(RunCompareCalled /\ (~Truthy(setId') \/ ~Truthy(leftId') \/ ~Truthy(rightId')))
        => /\ error' = ValidationMessage
           /\ loading' = FALSE
           /\ pc' = pc
           /\ startRequests' = startRequests
           /\ statusRequests' = statusRequests]_vars

C2_Witness ==
    /\ last.ev = "validation"
    /\ error = ValidationMessage
    /\ ~loading
    /\ NoRunInFlight

\* C3: no run issues more than 20 status requests.
C3_AtMostTwentyStatusRequests ==
    \A r \in Runs : statusRequests[r] <= 20

\* a run that got twenty non-terminal responses and waits out its last delay
C3_Witness ==
    \E r \in Runs : /\ pc[r] = AwaitDelay
                    /\ attempts[r] = MaxAttempts
                    /\ statusRequests[r] = 20
                    /\ ~gotError[r]

\* C4: after a status response with status "error" the error state is set and
\* the run has stopped (it issues no further status request).
C4_ErrorStatusStopsRun ==
    last.ev = "jobError" => (Truthy(error) /\ ~InFlight(last.run))

\* C5: a status response with status "done" publishes its summary ("" when
\* absent) and its diagram and ends the run: no step of that run follows, so
\* it issues no further request and changes summaryText and diagram no more.
C5_DonePublishesAndStops ==
    [][\A r \in Runs : \A p \in StatusPayloads :
        (p.status = "done" /\ StatusResponse(r, p))
        => /\ summaryText' = IF Truthy(p.summary_markdown)
                             THEN Str(extractComparisonSummary(p.summary_markdown.s))
                             ELSE EmptyString
           /\ diagram' = normalizeDiagramPayload(p.diagram)
           /\ ~InFlight(r)'
           /\ statusRequests'[r] <= statusRequests[r]]_vars

\* a done response without a summary was handled
C5_Witness ==
    /\ last.ev = "done"
    /\ summaryText = EmptyString
    /\ ~InFlight(last.run)

C7_DiagramKeptWithoutPayload ==
    [][\A r \in Runs : \A p \in StatusPayloads :
        (~Truthy(p.diagram) /\ StatusResponse(r, p)) => diagram' = diagram]_vars

FetchFailureMessages ==
    (ErrorBodies \ {EmptyString})
    \cup {StartFailedMessage, NoJobIdMessage, StatusFailedMessage, NetworkErrorMessage}

\* C9: a run that ends by exhausting its attempts ends with the error state
\* set to a timeout message, which is no fetch-failure message.
C9_ExhaustionIsTimeoutFailure ==
    last.ev = "exhausted" => (Truthy(error) /\ error \notin FetchFailureMessages)

\* C10: once the 25 s timer of a run has fired, the run ends with the error
\* state set to "The summary request timed out." and issues no further
\* request.
C10_TimerEndsRunWithTimeout ==
    [][\A r \in Runs :
        /\ (TimerFires(r) /\ pc[r] # AwaitDelay)
              => (error' = TimeoutMessage /\ ~InFlight(r)')
        /\ (aborted[r] /\ ~gotError[r] /\ DelayOver(r))
              => (error' = TimeoutMessage /\ ~InFlight(r)')]_vars

\* C11: a run stops polling at the earliest of a status response with a
\* terminal status (done or error), 20 attempts, or the 25 s abort: a status
\* response whose status is done or error ends the run at once, so the run
\* waits for no further delay and issues no further status request.
C11_PollingStopsAtTerminalStatus ==
    [][\A r \in Runs : \A p \in StatusPayloads :
        (p.status \in {"done", "error"} /\ StatusResponse(r, p))
        => pc'[r] = Idle]_vars

-----------------------------------------------------------------------------
(* Claims about normalizeDiagramPayload *)

Normalized == call.fn = "normalize" /\ call.done

\* the payload has array-valued nodes and edges
HasCanonicalArrays(raw) == IsArray(Get(raw, "nodes")) /\ IsArray(Get(raw, "edges"))

\* the payload has array-valued elements.nodes and elements.edges
HasLegacyArrays(raw) ==
    /\ IsArray(Get(Get(raw, "elements"), "nodes"))
    /\ IsArray(Get(Get(raw, "elements"), "edges"))

\* C12: a payload with array-valued nodes and edges is returned unchanged
\* (same nodes, edges, layout and every other field), also when it has an
\* elements field.
C12_CanonicalPassedThrough ==
    (Normalized /\ HasCanonicalArrays(call.arg)) => call.result = call.arg

\* a canonical payload that also has a well-formed elements field was returned
C12_Witness ==
    /\ Normalized /\ HasCanonicalArrays(call.arg) /\ HasLegacyArrays(call.arg)
    /\ Get(call.arg, "nodes").items # <<>>
    /\ call.result = call.arg

\* a property that is there: neither missing (undefined) nor null
Present(v) == ~IsNullish(v)

\* a legacy payload: no array-valued nodes and edges, and arrays of objects
\* under elements.nodes and elements.edges
IsLegacyPayload(raw) ==
    /\ ~IsNullish(raw) /\ ~HasCanonicalArrays(raw) /\ HasLegacyArrays(raw)
    /\ \A e \in Range(Get(Get(raw, "elements"), "nodes").items) : e.t = "object"
    /\ \A e \in Range(Get(Get(raw, "elements"), "edges").items) : e.t = "object"

\* the id the claim gives element number i (from 1) of a legacy array
ClaimedId(element, i, prefix) ==
    LET id == Get(Get(element, "data"), "id")
    IN  IF Present(id) THEN id ELSE Str(<<prefix, ToString(i - 1)>>)

\* the first of data.label, data.name that is there, else the id
ClaimedNodeLabel(element, i) ==
    LET data == Get(element, "data")
    IN  IF Present(Get(data, "label")) THEN Get(data, "label")
        ELSE IF Present(Get(data, "name")) THEN Get(data, "name")
        ELSE ClaimedId(element, i, "node-")

\* one output per element, in input order, with the claimed ids and the
\* fixed type, level and kind
LegacyShapeKept ==
    LET inNodes == Get(Get(call.arg, "elements"), "nodes").items
        inEdges == Get(Get(call.arg, "elements"), "edges").items
        nodes == Get(call.result, "nodes")
        edges == Get(call.result, "edges")
    IN  /\ IsArray(nodes) /\ Len(nodes.items) = Len(inNodes)
        /\ IsArray(edges) /\ Len(edges.items) = Len(inEdges)
        /\ \A i \in 1..Len(inNodes) :
              /\ Get(nodes.items[i], "id") = ClaimedId(inNodes[i], i, "node-")
              /\ Get(nodes.items[i], "type") = Str(<<"niche_connection">>)
              /\ Get(nodes.items[i], "level") = Num(1)
        /\ \A i \in 1..Len(inEdges) :
              /\ Get(edges.items[i], "id") = ClaimedId(inEdges[i], i, "edge-")
              /\ Get(edges.items[i], "kind") = Str(<<"contextual">>)

\* C13 as stated: a legacy payload gives one node per node element, in
\* order, of type niche_connection and level 1, with id data.id or else
\* node-<index> and label data.label, else data.name, else the id; and one
\* edge per edge element, of kind contextual, with id data.id or else
\* edge-<index> and label data.label when it is there, else null.
C13_LegacyMappedAsStated ==
    (Normalized /\ IsLegacyPayload(call.arg)) =>
        LET inNodes == Get(Get(call.arg, "elements"), "nodes").items
            inEdges == Get(Get(call.arg, "elements"), "edges").items
        IN  /\ LegacyShapeKept
            /\ \A i \in 1..Len(inNodes) :
                  Get(Get(call.result, "nodes").items[i], "label")
                      = ClaimedNodeLabel(inNodes[i], i)
            /\ \A i \in 1..Len(inEdges) :
                  LET label == Get(Get(inEdges[i], "data"), "label")
                  IN  Get(Get(call.result, "edges").items[i], "label")
                          = IF Present(label) THEN label ELSE JNull

\* C13 amended: as stated, but the node label is the string conversion of
\* the value chosen, and the edge label is the string conversion of
\* data.label when data.label is truthy, else null (an empty label or 0
\* gives null).
C13_LegacyMapped ==
    (Normalized /\ IsLegacyPayload(call.arg)) =>
        LET inNodes == Get(Get(call.arg, "elements"), "nodes").items
            inEdges == Get(Get(call.arg, "elements"), "edges").items
        IN  /\ LegacyShapeKept
            /\ \A i \in 1..Len(inNodes) :
                  Get(Get(call.result, "nodes").items[i], "label")
                      = ToStr(ClaimedNodeLabel(inNodes[i], i))
            /\ \A i \in 1..Len(inEdges) :
                  LET label == Get(Get(inEdges[i], "data"), "label")
                  IN  Get(Get(call.result, "edges").items[i], "label")
                          = IF Truthy(label) THEN ToStr(label) ELSE JNull

\* a legacy payload of two node elements, the second without an id and
\* named, and an edge element with a label was converted
C13_Witness ==
    /\ Normalized /\ IsLegacyPayload(call.arg)
    /\ LET inNodes == Get(Get(call.arg, "elements"), "nodes").items
           inEdges == Get(Get(call.arg, "elements"), "edges").items
       IN  /\ Len(inNodes) = 2 /\ Len(inEdges) >= 1
           /\ ~Present(Get(Get(inNodes[2], "data"), "id"))
           /\ Present(Get(Get(inNodes[1], "data"), "name"))
           /\ Truthy(Get(Get(inEdges[1], "data"), "label"))
    /\ Get(Get(call.result, "nodes").items[2], "id") = Str(<<"node-", "1">>)
    /\ Get(Get(call.result, "nodes").items[1], "label") = Str(<<"Motif">>)

\* C14: null is returned when raw is absent and for every payload that has
\* neither array-valued nodes and edges nor array-valued elements.nodes and
\* elements.edges, also when one array of a shape is present.
C14_NeitherShapeGivesNull ==
    (Normalized /\ (IsNullish(call.arg)
                     \/ (~HasCanonicalArrays(call.arg) /\ ~HasLegacyArrays(call.arg))))
    => call.result = JNull

\* one array of each shape is present, the other is not, and null was returned
C14_Witness ==
    /\ Normalized
    /\ IsArray(Get(call.arg, "nodes")) /\ ~IsArray(Get(call.arg, "edges"))
    /\ IsArray(Get(Get(call.arg, "elements"), "nodes"))
    /\ ~IsArray(Get(Get(call.arg, "elements"), "edges"))
    /\ call.result = JNull

\* C15: the call never throws, whatever the input, also when elements.nodes
\* or elements.edges contain null, undefined or non-object entries.
C15_NeverThrows == Normalized => ~Threw(call.result)

-----------------------------------------------------------------------------
(* Claims about DiagramCanvas and layoutWithDagre *)

CanvasRendered == call.fn = "DiagramCanvas" /\ call.done
LayoutDone == call.fn = "layoutWithDagre" /\ call.done

\* the diagram prop is null or a payload with no nodes
NullOrNoNodes(d) == d = JNull \/ (IsArray(Get(d, "nodes")) /\ Get(d, "nodes").items = <<>>)

\* the diagram prop takes the fallback branch of the memo
TriggersFallback(d) ==
    ~Truthy(d) \/ ~IsArray(Get(d, "nodes")) \/ ~IsArray(Get(d, "edges"))

\* C16: when the diagram is null or has zero nodes the graph given to React
\* Flow is the fallback graph, and whatever the diagram a graph with at least
\* one node is shown once loading is false.
C16_EmptyDiagramGetsFallback ==
    CanvasRendered =>
        /\ NullOrNoNodes(call.arg.diagram)
             => /\ call.result.nodes = fallbackNodes(ArtworkInfoA, ArtworkInfoB)
                /\ call.result.edges = fallbackEdges
        /\ ~call.arg.loading
             => (call.result.view = "graph" /\ call.result.nodes # <<>>)

\* C17: the fallback graph has exactly the 3 nodes artworkA, artworkB and a
\* niche_connection placeholder labelled "Connection could not be
\* structured", and exactly the 2 edges artworkA -> placeholder and
\* artworkB -> placeholder, at the same fixed coordinates for every diagram
\* that triggers it.
C17_FallbackGraphFixed ==
    (CanvasRendered /\ TriggersFallback(call.arg.diagram)) =>
        LET nodes == call.result.nodes
            edges == call.result.edges
        IN  /\ Len(nodes) = 3 /\ Len(edges) = 2
            /\ nodes[1].id = ArtworkAId /\ nodes[1].position = [x |-> 80, y |-> 20]
            /\ nodes[2].id = ArtworkBId /\ nodes[2].position = [x |-> 620, y |-> 20]
            /\ nodes[3].position = [x |-> 360, y |-> 20]
            /\ Get(nodes[3].data, "type") = Str(<<"niche_connection">>)
            /\ Get(nodes[3].data, "label") = Str(<<"Connection could not be structured">>)
            /\ edges[1].source = ArtworkAId /\ edges[1].target = nodes[3].id
            /\ edges[2].source = ArtworkBId /\ edges[2].target = nodes[3].id

\* the fallback graph was shown for a diagram object without a nodes array
C17_Witness ==
    /\ CanvasRendered /\ ~call.arg.loading
    /\ call.arg.diagram # JNull /\ TriggersFallback(call.arg.diagram)
    /\ call.result.view = "graph" /\ Len(call.result.nodes) = 3

\* the x of the node with this id in a list of laid out nodes
XOf(nodes, id) == Get(nodes[CHOOSE i \in DOMAIN nodes : Get(nodes[i], "id") = id], "x").n

HasBothAnchors(nodes) == {ArtworkAId, ArtworkBId} \subseteq IdsOf(nodes)

\* C18: for a node list with both anchors the layout has artworkA.x <
\* artworkB.x, whatever the types, levels and order, also when an anchor is
\* the central node.
C18_ArtworkALeftOfArtworkB ==
    (LayoutDone /\ HasBothAnchors(call.arg.nodes))
    => XOf(call.result, ArtworkAId) < XOf(call.result, ArtworkBId)

\* artworkB comes first, is the central node by its level, and dagre put it
\* left of artworkA
C18_Witness ==
    /\ LayoutDone /\ HasBothAnchors(call.arg.nodes)
    /\ Get(call.arg.nodes[1], "id") = ArtworkBId /\ IsL1(call.arg.nodes[1])
    /\ call.arg.points[ArtworkBId] < call.arg.points[ArtworkAId]
    /\ XOf(call.result, ArtworkAId) < XOf(call.result, ArtworkBId)

\* the positions of the central nodes (type niche_connection or level 1)
CentralNodes(nodes) == {i \in DOMAIN nodes : IsL1(nodes[i])}

\* the width the layout gives a node
WidthOf(node) ==
    IF IsArtworkId(Get(node, "id")) THEN ARTWORK_NODE_WIDTH ELSE CATEGORY_NODE_WIDTH

\* C19 as stated: with both anchors and exactly one central node, the x of
\* the central node is the midpoint of the x values of artworkA and artworkB
\* minus half the width of the central node (written without the division).
C19_CentreBetweenLeftEdges ==
    (LayoutDone /\ HasBothAnchors(call.arg.nodes)
       /\ Cardinality(CentralNodes(call.arg.nodes)) = 1) =>
        LET c == CHOOSE i \in CentralNodes(call.arg.nodes) : TRUE
        IN  2 * Get(call.result[c], "x").n + WidthOf(call.result[c])
                = XOf(call.result, ArtworkAId) + XOf(call.result, ArtworkBId)

\* C19 amended: with both anchors and exactly one central node, which is
\* not an anchor, the x of the central node is the midpoint between the
\* right edge of artworkA (its x plus its width) and the left edge of
\* artworkB (its x), minus half the width of the central node.
C19_CentreBetweenAnchors ==
    (LayoutDone /\ HasBothAnchors(call.arg.nodes)
       /\ Cardinality(CentralNodes(call.arg.nodes)) = 1) =>
        LET c == CHOOSE i \in CentralNodes(call.arg.nodes) : TRUE
        IN  ~IsArtworkId(Get(call.result[c], "id")) =>
                2 * Get(call.result[c], "x").n + WidthOf(call.result[c])
                    = XOf(call.result, ArtworkAId) + ARTWORK_NODE_WIDTH
                      + XOf(call.result, ArtworkBId)

\* both anchors and one central node between them, which dagre had put
\* elsewhere, were laid out
C19_Witness ==
    /\ LayoutDone /\ HasBothAnchors(call.arg.nodes)
    /\ Cardinality(CentralNodes(call.arg.nodes)) = 1
    /\ \E i \in CentralNodes(call.arg.nodes) :
          /\ ~IsArtworkId(Get(call.arg.nodes[i], "id"))
          /\ call.arg.points[Get(call.arg.nodes[i], "id")] = 150
          /\ Get(call.result[i], "x") = Num(360)

-----------------------------------------------------------------------------
(* Claims about the classifier and the text helpers *)

Classified == call.fn = "inferCategory" /\ call.done

\* the six types that name a category of their own
NamedTypes == {"niche_connection", "artist", "teacher", "movement", "theme", "context"}

\* C21: the category is node.type when that is one of niche_connection,
\* artist, teacher, movement, theme, context, also when node.level is 1;
\* otherwise niche_connection when node.level is 1, else other; and it is
\* always a key of the palette.
C21_TypeBeforeLevel ==
    Classified =>
        LET type == Get(call.arg, "type")
        IN  /\ call.result \in Categories
            /\ call.result =
                 IF type.t = "string" /\ Len(type.s) = 1 /\ type.s[1] \in NamedTypes
                 THEN type.s[1]
                 ELSE IF Get(call.arg, "level") = Num(1) THEN "niche_connection"
                 ELSE "other"

Truncated == call.fn = "truncateLabel" /\ call.done

\* the trimmed label, cut to 39 characters and "..." when longer than 42
CutLabel(label) ==
    LET t == Trim(label)
    IN  IF Len(t) <= 42 THEN t ELSE SubSeq(t, 1, 39) \o <<".", ".", ".">>

\* the positions (from 1) of the spaces of s at or before index 24 (from 0)
EarlySpaces(s) == {i \in 1..Len(s) : i - 1 <= 24 /\ s[i] = " "}

\* C22: the result has at most 42 characters; it is the trimmed label when
\* that has at most 42 characters, else its first 39 characters and "...";
\* and when that string is longer than 24 characters, exactly one of its
\* spaces, the last at or before index 24, is replaced by a line break; with
\* no such space the string is returned as it is.
C22_CutThenWrappedOnce ==
    Truncated =>
        LET cut == CutLabel(call.arg)
            early == EarlySpaces(cut)
        IN  /\ Len(call.result) <= 42
            /\ Len(call.result) = Len(cut)
            /\ IF Len(cut) > 24 /\ early # {}
               THEN LET p == CHOOSE i \in early : \A j \in early : j <= i
                    IN  call.result = [cut EXCEPT ![p] = "\n"]
               ELSE call.result = cut

\* a label of more than 42 characters with two spaces in its first 25 was
\* cut to 39 characters and "..." and wrapped at the second space only
C22_Witness ==
    /\ Truncated /\ Len(Trim(call.arg)) > 42
    /\ Len(call.result) = 42
    /\ SubSeq(call.result, 40, 42) = <<".", ".", ".">>
    /\ Cardinality(EarlySpaces(Trim(call.arg))) = 2
    /\ Cardinality({i \in 1..42 : call.result[i] = "\n"}) = 1
    /\ Cardinality({i \in 1..42 : call.result[i] = " "}) = 1

Extracted == call.fn = "extractComparisonSummary" /\ call.done

\* the positions of the marker in a text
MarkerPositions(text) == {i \in 1..Len(text) : text[i] = Marker}

\* C23: when the marker occurs, the result is the trimmed text after its
\* first occurrence with one leading colon or dash (and the white space
\* after it) stripped, so nothing before the marker is in the result; when
\* the marker does not occur, the result is the trimmed text.
C23_TextAfterMarker ==
    Extracted =>
        IF MarkerPositions(call.arg) = {}
        THEN call.result = Trim(call.arg)
        ELSE LET first == CHOOSE i \in MarkerPositions(call.arg) :
                              \A j \in MarkerPositions(call.arg) : i <= j
                 after == Trim(SubSeq(call.arg, first + 1, Len(call.arg)))
             IN  call.result = IF after # <<>> /\ Head(after) \in {":", "-"}
                               THEN Trim(Tail(after)) ELSE after

\* a text with a word before the marker and ": rest" after it gave "rest"
C23_Witness ==
    /\ Extracted
    /\ call.arg = <<"rest", Marker, ":", " ", "rest">>
    /\ call.result = <<"rest">>

Replaced == call.fn = "replaceArtworkLabels" /\ call.done

\* the tokens of the summary itself replaced in one pass from position i on:
\* "Artwork A" by titleA, "Artwork B" by titleB, the rest kept
RECURSIVE ReplaceBothFrom(_, _, _, _)
ReplaceBothFrom(s, i, titleA, titleB) ==
    IF i > Len(s) THEN <<>>
    ELSE LET a == MatchEnd(s, i, "A")
             b == MatchEnd(s, i, "B")
         IN  IF a > 0 THEN titleA \o ReplaceBothFrom(s, a + 1, titleA, titleB)
             ELSE IF b > 0 THEN titleB \o ReplaceBothFrom(s, b + 1, titleA, titleB)
             ELSE <<s[i]>> \o ReplaceBothFrom(s, i + 1, titleA, titleB)

\* C24: exactly the whole-word, case-insensitive tokens "Artwork A" and
\* "Artwork B" of the input summary are replaced by the titles of artworkA
\* and artworkB; everything else is unchanged, also the text of a title put
\* in by the replacement.
C24_OnlyTokensOfTheSummaryReplaced ==
    Replaced =>
        call.result = ReplaceBothFrom(call.arg.summary, 1,
                                      Get(call.arg.artworkA, "title").s,
                                      Get(call.arg.artworkB, "title").s)

-----------------------------------------------------------------------------
(* Claims about the rows of the layout and about edges *)

\* the row a node below the top row is put on: max(1, level - 1)
LowerRowY(node) == TOP_ROW_Y + ROW_SPACING * Max(1, Get(node, "level").n - 1)

\* C25: after layout, artworkA, artworkB and only the first node in input
\* order with type niche_connection or level 1 have y = 20; every other
\* node, also a further niche_connection or level-1 node, has
\* y = 20 + 260 * max(1, level - 1).
C25_OnlyFirstCentralNodeOnTopRow ==
    LayoutDone =>
        \A i \in DOMAIN call.result :
            Get(call.result[i], "y") =
                IF \/ IsArtworkId(Get(call.arg.nodes[i], "id"))
                   \/ i = FirstIndex(CentralNodes(call.arg.nodes))
                THEN Num(TOP_ROW_Y)
                ELSE Num(LowerRowY(call.arg.nodes[i]))

\* the edges of a list with an end that is the id of none of the nodes
Dangling(edges, nodes) ==
    {i \in DOMAIN edges :
        {Get(edges[i], "source"), Get(edges[i], "target")} \ IdsOf(nodes) # {}}

\* C26: an edge whose source or target is not the id of a node is set in
\* neither the dagre graph nor the edge list given to React Flow, and the
\* layout and the render still return their nodes; every edge given to React
\* Flow has its source and its target among the nodes given to React Flow.
C26_DanglingEdgesLeftOut ==
    /\ LayoutDone =>
          /\ Len(call.result) = Len(call.arg.nodes)
          /\ \A i \in Dangling(call.arg.edges, call.arg.nodes) :
                <<Get(call.arg.edges[i], "source"), Get(call.arg.edges[i], "target")>>
                    \notin Range(call.graph)
          /\ \A i \in DOMAIN call.graph :
                {call.graph[i][1], call.graph[i][2]} \subseteq IdsOf(call.arg.nodes)
    /\ (CanvasRendered /\ ~TriggersFallback(call.arg.diagram)) =>
          LET nodes == Get(call.arg.diagram, "nodes").items
              edges == Get(call.arg.diagram, "edges").items
          IN  /\ Len(call.result.nodes) = Len(nodes)
              /\ \A i \in Dangling(edges, nodes) :
                    \A j \in DOMAIN call.result.edges :
                        call.result.edges[j].id # Get(edges[i], "id")
    /\ CanvasRendered =>
          \A j \in DOMAIN call.result.edges :
              {call.result.edges[j].source, call.result.edges[j].target}
                  \subseteq {call.result.nodes[i].id : i \in DOMAIN call.result.nodes}

\* a diagram with one edge between two of its nodes and one edge to a node
\* it does not have was rendered with the first edge only
C26_Witness ==
    /\ CanvasRendered /\ ~TriggersFallback(call.arg.diagram)
    /\ Len(Get(call.arg.diagram, "edges").items) = 2
    /\ Cardinality(Dangling(Get(call.arg.diagram, "edges").items,
                            Get(call.arg.diagram, "nodes").items)) = 1
    /\ Len(call.result.edges) = 1

-----------------------------------------------------------------------------
(* Further claims about runCompare *)

\* run r has ended in this step without a request of its own
EndsWithoutRequest(r) ==
    /\ ~InFlight(r)'
    /\ startRequests'[r] <= startRequests[r]
    /\ statusRequests'[r] <= statusRequests[r]

\* C27: when the start request or a status request of a run is answered with
\* a non-success response, the run ends in that step with error set to the
\* text of the response body, or to the generic message of that request when
\* the body is empty, with loading = false and without a further request.
C27_FailedResponseEndsRun ==
    [][\A r \in Runs :
        /\ \A resp \in StartResponses :
              (~resp.ok /\ StartResponse(r, resp))
              => /\ error' = IF resp.text = EmptyString
                             THEN StartFailedMessage ELSE resp.text
                 /\ loading' = FALSE
                 /\ EndsWithoutRequest(r)
        /\ \A body \in ErrorBodies :
              StatusFailed(r, body)
              => /\ error' = IF body = EmptyString
                             THEN StatusFailedMessage ELSE body
                 /\ loading' = FALSE
                 /\ EndsWithoutRequest(r)]_vars

\* a status request was answered with a non-success response with an empty
\* body
C27_Witness ==
    /\ last.ev = "statusFailed"
    /\ error = StatusFailedMessage
    /\ ~loading
    /\ ~InFlight(last.run)

\* C29: loading is true for as long as any run is in flight: where two runs
\* overlap, the end of the older run sets neither loading to false nor the
\* error state while the newer run awaits its start response or a status
\* response.
C29_LoadingWhileAnyRunInFlight ==
    /\ []((\E r \in Runs : InFlight(r)) => loading)
    /\ [][\A r \in Runs :
            (/\ latest \in Runs /\ r # latest
             /\ pc[latest] \in {AwaitStart, AwaitStatus}
             /\ StepOf(r) /\ ~InFlight(r)')
            => (loading' = loading /\ error' = error)]_vars

-----------------------------------------------------------------------------
(* Claims about the pages of the legacy frontend and the selection *)

\* C28: the status Results displays is monotone: once it is done or error,
\* no response handled later, the response of an earlier request that was
\* still outstanding included, turns it back to processing.
C28_DisplayedStatusMonotone ==
    [][(results.page = "Results" /\ results.status.status \in TerminalStatuses)
        => results'.status.status # "processing"]_vars

\* a click on the card of painting id is handled in this step
Toggled(id) == toggleSelection(id) \/ ChoosePaintings_toggleSelection(id)

\* C30: whatever the clicks, the selection holds at most 2 ids, all
\* distinct; a click on a selected painting removes its id (and nothing
\* else), a click on an unselected painting while 2 are selected leaves the
\* selection as it is; and a comparison is started only with exactly 2 ids
\* selected, left being the first of them and right the second.
C30_AtMostTwoSelected ==
    /\ [](selection.page # "none" =>
            /\ Len(selection.selected) <= 2
            /\ \A i, j \in DOMAIN selection.selected :
                  selection.selected[i] = selection.selected[j] => i = j
            /\ selection.selected \in Seq(PaintingIds))
    /\ [][\A id \in PaintingIds :
            Toggled(id) =>
               LET before == selection.selected
                   after == selection'.selected
               IN  /\ Includes(before, id) =>
                        /\ ~Includes(after, id)
                        /\ Len(after) = Len(before) - 1
                        /\ \A other \in PaintingIds \ {id} :
                              Includes(after, other) = Includes(before, other)
                   /\ (~Includes(before, id) /\ Len(before) = 2) => after = before
                   /\ (~Includes(before, id) /\ Len(before) < 2) =>
                        after = before \o <<id>>]_vars
    /\ [][(selection.page # "none" /\ selection'.starts # selection.starts) =>
            /\ Len(selection.selected) = 2
            /\ selection'.started = <<selection.selected[1], selection.selected[2]>>
            /\ selection'.selected = selection.selected]_vars

\* with two paintings selected a third was clicked, and the selection stayed
C30_Witness ==
    /\ selection.page = "ChoosePaintings"
    /\ selection.last.op = "toggle"
    /\ Len(selection.selected) = 2
    /\ ~Includes(selection.selected, selection.last.id)
    /\ selection.message = TooManyMessage

====
